---- MODULE Spec2Model ----
(***************************************************************************)
(* Model of the create-contingent-pool offer fill script of the DIVA       *)
(* protocol scripts: proportional amount computation, allowance top-up,    *)
(* the _checkConditions preflight and the fill submission.                 *)
(***************************************************************************)
EXTENDS Integers, Sequences, FiniteSets, TLC

\* ------------------------------------------------------------------------
\* Bounds
\* ------------------------------------------------------------------------
MaxAmount == 2      \* offer amounts and fill amounts of the full script run
MaxBalance == 2     \* token balances and allowances of the full script run
MaxCalc == 5        \* amounts of the amount-computation runs
MaxParam == 2       \* amounts handed to the preflight in the preflight runs
MaxTime == 1        \* timestamps of the add-liquidity runs
MaxUint == 15       \* largest integer of the settlement layer, scaled down

\* ------------------------------------------------------------------------
\* Addresses
\* ------------------------------------------------------------------------
Accounts == {"a1", "a2"}
AddressZero == "0x0"

\* an address is a string; an account's address can also be spelled in lower
\* case, which is a different string for === and !=
LowerCaseSpellings == {"lc:a1", "lc:a2"}

\* line 94: ethers.getSigner(address).address, the account's address in its
\* checksummed spelling, whichever spelling was handed in
getSigner(address) ==
  CASE address = "lc:a1" -> "a1"
    [] address = "lc:a2" -> "a2"
    [] OTHER -> address

\* 0: INVALID, 1: CANCELLED, 2: FILLED, 3: EXPIRED, 4: FILLABLE
OfferStatus ==
  [Invalid |-> 0, Cancelled |-> 1, Filled |-> 2, Expired |-> 3, Fillable |-> 4]

StatusValues == 0..4

VARIABLES
  pc,                 \* position of main() of the fill script
  offer,              \* offerCreateContingentPool, as returned by the API
  recoveredAddress,   \* the address the offer's signature recovers to
  taker,              \* taker.address, the signer that fills the offer
  takerFillAmount,
  makerFillAmount,
  totalCollateralFillAmount,
  balanceMakerBefore, \* collateralTokenBalanceMakerBefore
  balanceTakerBefore, \* collateralTokenBalanceTakerBefore
  allowanceMaker,
  allowanceTaker,
  error,              \* the reason main() ended with, "" while none
  sent,               \* the transactions issued by the script, in order
  checked,            \* TRUE once _checkConditions has returned normally
  relevantStateParams,\* what getOfferRelevantStateCreateContingentPool reports
  balanceOf,          \* collateral token balances
  allowanceOf,        \* collateral token allowances granted to DIVA
  fillSucceeded,      \* outcome of the fill: "none", "yes", "no"
  pass,               \* how many times the allowance section has been entered
  interfered,         \* TRUE once another party has changed the offer state
  firstFillDone,      \* latch: a fill of a positive amount has been accepted
  rival,              \* a second requester running the script on the offer
  addPc,              \* position of main() of the add-liquidity script
  variant,            \* which add-liquidity script runs: "separate", "combined"
  poolParams,         \* poolParamsBefore: expiryTime, collateralBalance, capacity
  additionalAmount,
  longRecipient,
  shortRecipient,
  now,                \* getCurrentTimestamp() at the time of the check
  addBalance,         \* balance of the liquidity provider, as read
  addAllowance,       \* allowance of the liquidity provider, as read
  addError,           \* the reason the add-liquidity script ended with
  addSent             \* the transactions issued by the add-liquidity script

scriptVars ==
  <<pc, taker, takerFillAmount, makerFillAmount, totalCollateralFillAmount,
    balanceMakerBefore, balanceTakerBefore, allowanceMaker, allowanceTaker,
    error, sent, checked, fillSucceeded>>
offerVars == <<offer, recoveredAddress>>
chainVars == <<relevantStateParams, balanceOf, allowanceOf>>
raceVars == <<pass, interfered, firstFillDone, rival>>
addVars ==
  <<addPc, variant, poolParams, additionalAmount, longRecipient,
    shortRecipient, now, addBalance, addAllowance, addError, addSent>>
vars == <<scriptVars, offerVars, chainVars, raceVars, addVars>>

\* ------------------------------------------------------------------------
\* Amount computation
\* ------------------------------------------------------------------------

\* BigNumber.div: integer division truncating toward zero (operands >= 0)
BNDiv(a, b) == a \div b

MulDivDivideFirst(a, b, c) == BNDiv(a, c) * b

MulDivRoundUp(a, b, c) == BNDiv(a * b + c - 1, c)

\* BigNumber.from(a).mul(b).div(c)
MulDiv(a, b, c) == BNDiv(a * b, c)

ComputeMakerFillAmountSwapped(o, tfa) ==
  IF tfa = 0 THEN 0
  ELSE MulDiv(o.makerCollateralAmount, o.takerCollateralAmount, tfa)

\* makerFillAmount of main()
ComputeMakerFillAmount(o, tfa) ==
  MulDiv(o.makerCollateralAmount, tfa, o.takerCollateralAmount)

TotalDivideFirst(o, tfa) ==
  BNDiv(o.makerCollateralAmount + o.takerCollateralAmount,
        o.takerCollateralAmount) * tfa

TotalMakerLegOnly(o, tfa) ==
  MulDiv(o.makerCollateralAmount, tfa, o.takerCollateralAmount)

\* totalCollateralFillAmount of main(), taker = maker
ComputeTotalCollateralFillAmount(o, tfa) ==
  MulDiv(o.makerCollateralAmount + o.takerCollateralAmount, tfa,
         o.takerCollateralAmount)

\* ------------------------------------------------------------------------
\* The preflight: _checkConditions
\* ------------------------------------------------------------------------

StatusReasonNoExpiry(status) ==
  IF status = OfferStatus.Invalid THEN "StatusInvalid"
  ELSE IF status = OfferStatus.Cancelled THEN "StatusCancelled"
  ELSE IF status = OfferStatus.Filled THEN "StatusFilled"
  ELSE "Ok"

\* the four status tests, in the order of the code
StatusReason(status) ==
  IF status = OfferStatus.Invalid THEN "StatusInvalid"
  ELSE IF status = OfferStatus.Cancelled THEN "StatusCancelled"
  ELSE IF status = OfferStatus.Filled THEN "StatusFilled"
  ELSE IF status = OfferStatus.Expired THEN "StatusExpired"
  ELSE "Ok"

ExceedsFillableLocal(rsp, o, tfa) ==
  o.takerCollateralAmount - rsp.takerFilledAmount < tfa

\* relevantStateParams.actualTakerFillableAmount.lt(takerFillAmount)
ExceedsFillable(rsp, o, tfa) == rsp.actualTakerFillableAmount < tfa

SignatureMismatchTaker(recovered, o) == recovered # o.taker

\* recoveredAddress != offerCreateContingentPool.maker
SignatureMismatch(recovered, o) == recovered # o.maker

TakerNotAllowedNoWildcard(o, userAddress) == userAddress # o.taker

\* the offer is reserved for a different address
TakerNotAllowed(o, userAddress) ==
  o.taker # AddressZero /\ userAddress # o.taker

\* the minimum enforced until the cumulative filled amount has reached it
BelowMinimumUntilReached(takerFilledAmount, tfa, minimum) ==
  takerFilledAmount < minimum /\ tfa < minimum

BelowMinimumEveryFill(takerFilledAmount, tfa, minimum) == tfa < minimum

\* takerFilledAmount.eq(0) && takerFillAmount.lt(minimumTakerFillAmount)
BelowMinimum(takerFilledAmount, tfa, minimum) ==
  takerFilledAmount = 0 /\ tfa < minimum

checkBalancesFirst(rsp, o, recovered, userAddress, tfa, mfa, tBal, mBal) ==
  IF StatusReason(rsp.status) # "Ok" THEN StatusReason(rsp.status)
  ELSE IF ~rsp.isValidInputParamsCreateContingentPool THEN "InvalidParameters"
  ELSE IF tBal < tfa THEN "InsufficientTakerBalance"
  ELSE IF mBal < mfa THEN "InsufficientMakerBalance"
  ELSE IF ExceedsFillable(rsp, o, tfa) THEN "ExceedsFillable"
  ELSE IF SignatureMismatch(recovered, o) THEN "InvalidSignature"
  ELSE IF TakerNotAllowed(o, userAddress) THEN "Unauthorized"
  ELSE IF BelowMinimum(rsp.takerFilledAmount, tfa, o.minimumTakerFillAmount)
    THEN "BelowMinimum"
  ELSE "Ok"

\* _checkConditions: the reason it throws with, "Ok" when it returns
checkConditions(rsp, o, recovered, userAddress, tfa, mfa, tBal, mBal) ==
  IF StatusReason(rsp.status) # "Ok" THEN StatusReason(rsp.status)
  ELSE IF ~rsp.isValidInputParamsCreateContingentPool THEN "InvalidParameters"
  ELSE IF ExceedsFillable(rsp, o, tfa) THEN "ExceedsFillable"
  ELSE IF SignatureMismatch(recovered, o) THEN "InvalidSignature"
  ELSE IF TakerNotAllowed(o, userAddress) THEN "Unauthorized"
  ELSE IF BelowMinimum(rsp.takerFilledAmount, tfa, o.minimumTakerFillAmount)
    THEN "BelowMinimum"
  ELSE IF tBal < tfa THEN "InsufficientTakerBalance"
  ELSE IF mBal < mfa THEN "InsufficientMakerBalance"
  ELSE "Ok"

\* ------------------------------------------------------------------------
\* Collaborators: the collateral token and the settlement contract
\* ------------------------------------------------------------------------

\* ERC20 approve(spender = DIVA, amount) sent by owner
Approve(owner, amount) == [allowanceOf EXCEPT ![owner] = amount]

\* status the settlement contract reports for an offer with this much filled
StatusAfterFill(o, filled) ==
  IF filled >= o.takerCollateralAmount THEN OfferStatus.Filled
  ELSE OfferStatus.Fillable

\* what the settlement contract takes from each account for a fill: the two
\* legs, or the single combined transfer when the sender is the maker
Charge(o, sender, tfa) ==
  [a \in Accounts |->
     IF sender = getSigner(o.maker)
       THEN (IF a = sender
               THEN BNDiv((o.makerCollateralAmount + o.takerCollateralAmount)
                            * tfa, o.takerCollateralAmount)
               ELSE 0)
       ELSE (IF a = getSigner(o.maker)
               THEN BNDiv(o.makerCollateralAmount * tfa,
                          o.takerCollateralAmount)
               ELSE IF a = sender THEN tfa ELSE 0)]

\* a settlement that trusts the caller's preflight: no check of the status
\* or of the remaining fillable amount
FillAcceptedNoRecheck(o, recovered, sender, tfa) ==
  /\ relevantStateParams.isValidInputParamsCreateContingentPool
  /\ recovered = getSigner(o.maker)
  /\ o.taker \in {AddressZero, sender}
  /\ relevantStateParams.takerFilledAmount = 0
       => tfa >= o.minimumTakerFillAmount
  /\ \A a \in Accounts :
        /\ balanceOf[a] >= Charge(o, sender, tfa)[a]
        /\ allowanceOf[a] >= Charge(o, sender, tfa)[a]

\* fillOfferCreateContingentPool succeeds (does not revert): the settlement
\* contract's own authoritative checks, then the collateral transfers
FillAccepted(o, recovered, sender, tfa) ==
  /\ relevantStateParams.status = OfferStatus.Fillable
  /\ relevantStateParams.isValidInputParamsCreateContingentPool
  /\ tfa <= relevantStateParams.actualTakerFillableAmount
  /\ recovered = getSigner(o.maker)
  /\ o.taker \in {AddressZero, sender}
  /\ relevantStateParams.takerFilledAmount = 0
       => tfa >= o.minimumTakerFillAmount
  /\ \A a \in Accounts :
        /\ balanceOf[a] >= Charge(o, sender, tfa)[a]
        /\ allowanceOf[a] >= Charge(o, sender, tfa)[a]

\* the state of the settlement contract and of the token after a fill
StateAfterFill(o, tfa) ==
  LET filled == relevantStateParams.takerFilledAmount + tfa
  IN [relevantStateParams EXCEPT
        !.takerFilledAmount = filled,
        !.status = StatusAfterFill(o, filled),
        !.actualTakerFillableAmount = o.takerCollateralAmount - filled]

\* ------------------------------------------------------------------------
\* main() of the fill script, one action per awaited step
\* ------------------------------------------------------------------------

\* line 94: the maker signer's address
maker == getSigner(offer.maker)

ApproveTx(owner, amount) == [kind |-> "approve", from |-> owner, amount |-> amount]
FillTx(sender, amount) == [kind |-> "fill", from |-> sender, amount |-> amount]

\* lines 84-91: takerFillAmount is set and makerFillAmount computed;
\* BigNumber.div throws on a zero divisor
CalculateMakerFillAmount ==
  /\ pc = "compute"
  /\ IF offer.takerCollateralAmount = 0
       THEN /\ pc' = "failed"
            /\ error' = "DivisionByZero"
            /\ UNCHANGED makerFillAmount
       ELSE /\ pc' = "balances"
            /\ makerFillAmount' = ComputeMakerFillAmount(offer, takerFillAmount)
            /\ UNCHANGED error
  /\ UNCHANGED <<taker, takerFillAmount, totalCollateralFillAmount,
                 balanceMakerBefore, balanceTakerBefore, allowanceMaker,
                 allowanceTaker, sent, checked, fillSucceeded>>
  /\ UNCHANGED <<offerVars, chainVars, raceVars, addVars>>

\* lines 99-105
ReadBalances ==
  /\ pc = "balances"
  /\ balanceMakerBefore' = balanceOf[maker]
  /\ balanceTakerBefore' = balanceOf[taker]
  /\ pc' = "allowances"
  /\ UNCHANGED <<taker, takerFillAmount, makerFillAmount,
                 totalCollateralFillAmount, allowanceMaker, allowanceTaker,
                 error, sent, checked, fillSucceeded>>
  /\ UNCHANGED <<offerVars, chainVars, raceVars, addVars>>

\* lines 107-115
ReadAllowances ==
  /\ pc = "allowances"
  /\ allowanceMaker' = allowanceOf[maker]
  /\ allowanceTaker' = allowanceOf[taker]
  /\ pc' = "approve"
  /\ UNCHANGED <<taker, takerFillAmount, makerFillAmount,
                 totalCollateralFillAmount, balanceMakerBefore,
                 balanceTakerBefore, error, sent, checked, fillSucceeded>>
  /\ UNCHANGED <<offerVars, chainVars, raceVars, addVars>>

\* lines 117-137: taker = maker, one allowance sized to the combined amount
ApproveSelf ==
  /\ pc = "approve"
  /\ taker = offer.maker
  /\ LET total == ComputeTotalCollateralFillAmount(offer, takerFillAmount)
     IN /\ totalCollateralFillAmount' = total
        /\ IF allowanceMaker < total
             THEN /\ sent' = Append(sent, ApproveTx(maker, total + 1))
                  /\ allowanceOf' = Approve(maker, total + 1)
                  /\ allowanceMaker' = allowanceOf'[maker]
                  /\ allowanceTaker' = allowanceMaker'
             ELSE UNCHANGED <<sent, allowanceOf, allowanceMaker, allowanceTaker>>
  /\ pc' = "check"
  /\ UNCHANGED <<taker, takerFillAmount, makerFillAmount, balanceMakerBefore,
                 balanceTakerBefore, error, checked, fillSucceeded>>
  /\ UNCHANGED <<offerVars, relevantStateParams, balanceOf>>
  /\ UNCHANGED <<raceVars, addVars>>

ApproveMakerNoBuffer ==
  /\ pc = "approve"
  /\ taker # offer.maker
  /\ IF allowanceMaker < makerFillAmount
       THEN /\ sent' = Append(sent, ApproveTx(maker, makerFillAmount))
            /\ allowanceOf' = Approve(maker, makerFillAmount)
            /\ allowanceMaker' = allowanceOf'[maker]
       ELSE UNCHANGED <<sent, allowanceOf, allowanceMaker>>
  /\ pc' = "approveTaker"
  /\ UNCHANGED <<taker, takerFillAmount, makerFillAmount,
                 totalCollateralFillAmount, balanceMakerBefore,
                 balanceTakerBefore, allowanceTaker, error, checked,
                 fillSucceeded>>
  /\ UNCHANGED <<offerVars, relevantStateParams, balanceOf>>
  /\ UNCHANGED <<raceVars, addVars>>

\* lines 139-151: maker allowance, taker # maker
ApproveMaker ==
  /\ pc = "approve"
  /\ taker # offer.maker
  /\ IF allowanceMaker < makerFillAmount
       THEN /\ sent' = Append(sent, ApproveTx(maker, makerFillAmount + 1))
            /\ allowanceOf' = Approve(maker, makerFillAmount + 1)
            /\ allowanceMaker' = allowanceOf'[maker]
       ELSE UNCHANGED <<sent, allowanceOf, allowanceMaker>>
  /\ pc' = "approveTaker"
  /\ UNCHANGED <<taker, takerFillAmount, makerFillAmount,
                 totalCollateralFillAmount, balanceMakerBefore,
                 balanceTakerBefore, allowanceTaker, error, checked,
                 fillSucceeded>>
  /\ UNCHANGED <<offerVars, relevantStateParams, balanceOf>>
  /\ UNCHANGED <<raceVars, addVars>>

ApproveTakerLte ==
  /\ pc = "approveTaker"
  /\ IF allowanceTaker <= takerFillAmount
       THEN /\ sent' = Append(sent, ApproveTx(taker, takerFillAmount))
            /\ allowanceOf' = Approve(taker, takerFillAmount)
            /\ allowanceTaker' = allowanceOf'[taker]
       ELSE UNCHANGED <<sent, allowanceOf, allowanceTaker>>
  /\ pc' = "check"
  /\ UNCHANGED <<taker, takerFillAmount, makerFillAmount,
                 totalCollateralFillAmount, balanceMakerBefore,
                 balanceTakerBefore, allowanceMaker, error, checked,
                 fillSucceeded>>
  /\ UNCHANGED <<offerVars, relevantStateParams, balanceOf>>
  /\ UNCHANGED <<raceVars, addVars>>

\* lines 153-165: taker allowance, taker # maker
ApproveTaker ==
  /\ pc = "approveTaker"
  /\ IF allowanceTaker < takerFillAmount
       THEN /\ sent' = Append(sent, ApproveTx(taker, takerFillAmount + 1))
            /\ allowanceOf' = Approve(taker, takerFillAmount + 1)
            /\ allowanceTaker' = allowanceOf'[taker]
       ELSE UNCHANGED <<sent, allowanceOf, allowanceTaker>>
  /\ pc' = "check"
  /\ UNCHANGED <<taker, takerFillAmount, makerFillAmount,
                 totalCollateralFillAmount, balanceMakerBefore,
                 balanceTakerBefore, allowanceMaker, error, checked,
                 fillSucceeded>>
  /\ UNCHANGED <<offerVars, relevantStateParams, balanceOf>>
  /\ UNCHANGED <<raceVars, addVars>>

\* a rejected approve whose error is swallowed: the run goes on to the
\* preflight and the fill
ApproveFailsContinues ==
  /\ pc \in {"approve", "approveTaker"}
  /\ LET owner == IF pc = "approve" THEN maker ELSE taker
         current == IF pc = "approve" THEN allowanceMaker ELSE allowanceTaker
         required ==
           IF pc = "approveTaker" THEN takerFillAmount
           ELSE IF taker = offer.maker
             THEN ComputeTotalCollateralFillAmount(offer, takerFillAmount)
             ELSE makerFillAmount
     IN /\ current < required
        /\ sent' = Append(sent, ApproveTx(owner, required + 1))
  /\ pc' = "check"
  /\ error' = "AllowanceRequestFailed"
  /\ UNCHANGED <<taker, takerFillAmount, makerFillAmount,
                 totalCollateralFillAmount, balanceMakerBefore,
                 balanceTakerBefore, allowanceMaker, allowanceTaker, checked,
                 fillSucceeded>>
  /\ UNCHANGED <<offerVars, chainVars, raceVars, addVars>>

\* an approve transaction that is rejected: approveTx.wait() throws and
\* main().catch ends the run
ApproveFails ==
  /\ pc \in {"approve", "approveTaker"}
  /\ LET owner == IF pc = "approve" THEN maker ELSE taker
         current == IF pc = "approve" THEN allowanceMaker ELSE allowanceTaker
         required ==
           IF pc = "approveTaker" THEN takerFillAmount
           ELSE IF taker = offer.maker
             THEN ComputeTotalCollateralFillAmount(offer, takerFillAmount)
             ELSE makerFillAmount
     IN /\ current < required
        /\ sent' = Append(sent, ApproveTx(owner, required + 1))
  /\ pc' = "failed"
  /\ error' = "AllowanceRequestFailed"
  /\ UNCHANGED <<taker, takerFillAmount, makerFillAmount,
                 totalCollateralFillAmount, balanceMakerBefore,
                 balanceTakerBefore, allowanceMaker, allowanceTaker, checked,
                 fillSucceeded>>
  /\ UNCHANGED <<offerVars, chainVars, raceVars, addVars>>

\* a preflight that reserves the amount it has validated
CheckConditionsReserves ==
  /\ pc = "check"
  /\ LET r == checkConditions(relevantStateParams, offer, recoveredAddress,
                              taker, takerFillAmount, makerFillAmount,
                              balanceTakerBefore, balanceMakerBefore)
     IN IF r = "Ok"
          THEN /\ pc' = "fill"
               /\ checked' = TRUE
               /\ relevantStateParams' =
                    [relevantStateParams EXCEPT
                       !.actualTakerFillableAmount = @ - takerFillAmount]
               /\ UNCHANGED error
          ELSE /\ pc' = "failed"
               /\ error' = r
               /\ UNCHANGED <<checked, relevantStateParams>>
  /\ UNCHANGED <<taker, takerFillAmount, makerFillAmount,
                 totalCollateralFillAmount, balanceMakerBefore,
                 balanceTakerBefore, allowanceMaker, allowanceTaker, sent,
                 fillSucceeded>>
  /\ UNCHANGED <<offerVars, balanceOf, allowanceOf, raceVars, addVars>>

\* lines 168-180: the preflight, called with the balances read at the start
CheckConditions ==
  /\ pc = "check"
  /\ LET r == checkConditions(relevantStateParams, offer, recoveredAddress,
                              taker, takerFillAmount, makerFillAmount,
                              balanceTakerBefore, balanceMakerBefore)
     IN IF r = "Ok"
          THEN /\ pc' = "fill"
               /\ checked' = TRUE
               /\ UNCHANGED error
          ELSE /\ pc' = "failed"
               /\ error' = r
               /\ UNCHANGED checked
  /\ UNCHANGED <<taker, takerFillAmount, makerFillAmount,
                 totalCollateralFillAmount, balanceMakerBefore,
                 balanceTakerBefore, allowanceMaker, allowanceTaker, sent,
                 fillSucceeded>>
  /\ UNCHANGED <<offerVars, chainVars, raceVars, addVars>>

\* lines 185-193: the fill is submitted by the taker and awaited
FillOffer ==
  /\ pc = "fill"
  /\ sent' = Append(sent, FillTx(taker, takerFillAmount))
  /\ IF FillAccepted(offer, recoveredAddress, taker, takerFillAmount)
       THEN /\ relevantStateParams' = StateAfterFill(offer, takerFillAmount)
            /\ balanceOf' =
                 [a \in Accounts |->
                    balanceOf[a] - Charge(offer, taker, takerFillAmount)[a]]
            /\ allowanceOf' =
                 [a \in Accounts |->
                    allowanceOf[a] - Charge(offer, taker, takerFillAmount)[a]]
            /\ pc' = "done"
            /\ fillSucceeded' = "yes"
            /\ UNCHANGED error
       ELSE /\ pc' = "failed"
            /\ error' = "SettlementRejected"
            /\ fillSucceeded' = "no"
            /\ UNCHANGED chainVars
  /\ UNCHANGED <<taker, takerFillAmount, makerFillAmount,
                 totalCollateralFillAmount, balanceMakerBefore,
                 balanceTakerBefore, allowanceMaker, allowanceTaker, checked>>
  /\ firstFillDone' =
       (firstFillDone \/
          (FillAccepted(offer, recoveredAddress, taker, takerFillAmount)
             /\ takerFillAmount > 0))
  /\ UNCHANGED <<offerVars, pass, interfered, rival, addVars>>

\* the allowance section of main() entered a second time, nothing having
\* changed in between
RepeatAllowanceSection ==
  /\ pc = "check"
  /\ pass = 1
  /\ pass' = 2
  /\ pc' = "allowances"
  /\ UNCHANGED <<taker, takerFillAmount, makerFillAmount,
                 totalCollateralFillAmount, balanceMakerBefore,
                 balanceTakerBefore, allowanceMaker, allowanceTaker, error,
                 sent, checked, fillSucceeded>>
  /\ UNCHANGED <<offerVars, chainVars, interfered, firstFillDone, rival,
                 addVars>>

\* ------------------------------------------------------------------------
\* a second requester and the maker acting on the same offer
\* ------------------------------------------------------------------------

\* the account of the second requester
Rival == "a2"

\* the second requester computes the maker leg and runs _checkConditions on
\* the state it reads
RivalCheckConditions ==
  /\ rival.pc = "idle"
  /\ offer.takerCollateralAmount > 0
  /\ \E amount \in 0..MaxAmount :
       LET r == checkConditions(relevantStateParams, offer, recoveredAddress,
                                Rival, amount,
                                ComputeMakerFillAmount(offer, amount),
                                balanceOf[Rival],
                                balanceOf[getSigner(offer.maker)])
       IN rival' = [pc |-> IF r = "Ok" THEN "fill" ELSE "failed",
                    amount |-> amount,
                    error |-> IF r = "Ok" THEN "" ELSE r]
  /\ UNCHANGED <<scriptVars, offerVars, chainVars, pass, interfered,
                 firstFillDone, addVars>>

\* the second requester submits its fill
RivalFillOffer ==
  /\ rival.pc = "fill"
  /\ IF FillAccepted(offer, recoveredAddress, Rival, rival.amount)
       THEN /\ relevantStateParams' = StateAfterFill(offer, rival.amount)
            /\ balanceOf' =
                 [a \in Accounts |->
                    balanceOf[a] - Charge(offer, Rival, rival.amount)[a]]
            /\ allowanceOf' =
                 [a \in Accounts |->
                    allowanceOf[a] - Charge(offer, Rival, rival.amount)[a]]
            /\ rival' = [rival EXCEPT !.pc = "done"]
            /\ interfered' = TRUE
            /\ firstFillDone' = (firstFillDone \/ rival.amount > 0)
       ELSE /\ rival' = [rival EXCEPT !.pc = "failed",
                                      !.error = "SettlementRejected"]
            /\ UNCHANGED <<chainVars, interfered, firstFillDone>>
  /\ UNCHANGED <<scriptVars, offerVars, pass, addVars>>

\* the maker cancels the offer
OtherPartyCancels ==
  /\ relevantStateParams.status = OfferStatus.Fillable
  /\ relevantStateParams' =
       [relevantStateParams EXCEPT !.status = OfferStatus.Cancelled,
                                   !.actualTakerFillableAmount = 0]
  /\ interfered' = TRUE
  /\ UNCHANGED <<scriptVars, offerVars, balanceOf, allowanceOf, pass,
                 firstFillDone, rival, addVars>>

\* ------------------------------------------------------------------------
\* main() and _checkConditions of the add-liquidity scripts
\* ------------------------------------------------------------------------

\* [liquidityProvider] = await ethers.getSigners()
LiquidityProvider == "a1"

\* a preflight that refuses an addition that fills the pool exactly to capacity
addCheckCapacityStrict(pool, amount, long, short, balance, time) ==
  IF long = AddressZero THEN "LongRecipientZero"
  ELSE IF short = AddressZero THEN "ShortRecipientZero"
  ELSE IF time >= pool.expiryTime THEN "PoolExpired"
  ELSE IF pool.collateralBalance + amount >= pool.capacity
    THEN "CapacityExceeded"
  ELSE IF balance < amount THEN "InsufficientBalance"
  ELSE "Ok"

\* _checkConditions of addLiquidity.ts: long and short recipient tested apart
addCheckSeparate(pool, amount, long, short, balance, time) ==
  IF long = AddressZero THEN "LongRecipientZero"
  ELSE IF short = AddressZero THEN "ShortRecipientZero"
  ELSE IF time >= pool.expiryTime THEN "PoolExpired"
  ELSE IF pool.collateralBalance + amount > pool.capacity
    THEN "CapacityExceeded"
  ELSE IF balance < amount THEN "InsufficientBalance"
  ELSE "Ok"

\* a combined recipient test that rejects only when both are zero
addCheckCombinedBoth(pool, amount, long, short, balance, time) ==
  IF long = AddressZero /\ short = AddressZero THEN "RecipientZero"
  ELSE IF time >= pool.expiryTime THEN "PoolExpired"
  ELSE IF pool.collateralBalance + amount > pool.capacity
    THEN "CapacityExceeded"
  ELSE IF balance < amount THEN "InsufficientBalance"
  ELSE "Ok"

\* _checkConditions of the second add-liquidity script: one recipient test
addCheckCombined(pool, amount, long, short, balance, time) ==
  IF long = AddressZero \/ short = AddressZero THEN "RecipientZero"
  ELSE IF time >= pool.expiryTime THEN "PoolExpired"
  ELSE IF pool.collateralBalance + amount > pool.capacity
    THEN "CapacityExceeded"
  ELSE IF balance < amount THEN "InsufficientBalance"
  ELSE "Ok"

\* addLiquidity of the settlement contract succeeds (does not revert)
AddLiquidityAccepted ==
  /\ longRecipient # AddressZero
  /\ shortRecipient # AddressZero
  /\ now < poolParams.expiryTime
  /\ poolParams.collateralBalance + additionalAmount <= poolParams.capacity
  /\ balanceOf[LiquidityProvider] >= additionalAmount
  /\ allowanceOf[LiquidityProvider] >= additionalAmount

\* line 61: the provider's balance is read
AddReadBalance ==
  /\ addPc = "balance"
  /\ addBalance' = balanceOf[LiquidityProvider]
  /\ addPc' = "check"
  /\ UNCHANGED <<variant, poolParams, additionalAmount, longRecipient,
                 shortRecipient, now, addAllowance, addError, addSent>>
  /\ UNCHANGED <<scriptVars, offerVars, chainVars, raceVars>>

\* lines 63-70: the preflight of the script that runs
AddCheckConditions ==
  /\ addPc = "check"
  /\ LET r == IF variant = "separate"
                THEN addCheckSeparate(poolParams, additionalAmount,
                                      longRecipient, shortRecipient,
                                      addBalance, now)
                ELSE addCheckCombined(poolParams, additionalAmount,
                                      longRecipient, shortRecipient,
                                      addBalance, now)
     IN IF r = "Ok"
          THEN addPc' = "allowance" /\ UNCHANGED addError
          ELSE addPc' = "failed" /\ addError' = r
  /\ UNCHANGED <<variant, poolParams, additionalAmount, longRecipient,
                 shortRecipient, now, addBalance, addAllowance, addSent>>
  /\ UNCHANGED <<scriptVars, offerVars, chainVars, raceVars>>

\* lines 72-76: the provider's allowance is read
AddReadAllowance ==
  /\ addPc = "allowance"
  /\ addAllowance' = allowanceOf[LiquidityProvider]
  /\ addPc' = "approve"
  /\ UNCHANGED <<variant, poolParams, additionalAmount, longRecipient,
                 shortRecipient, now, addBalance, addError, addSent>>
  /\ UNCHANGED <<scriptVars, offerVars, chainVars, raceVars>>

\* an approve sized like the fill script's, with the one-unit buffer
AddApproveBuffered ==
  /\ addPc = "approve"
  /\ IF addAllowance < additionalAmount
       THEN /\ addSent' = Append(addSent, ApproveTx(LiquidityProvider,
                                                    additionalAmount + 1))
            /\ allowanceOf' = Approve(LiquidityProvider, additionalAmount + 1)
            /\ addAllowance' = allowanceOf'[LiquidityProvider]
       ELSE UNCHANGED <<addSent, allowanceOf, addAllowance>>
  /\ addPc' = "add"
  /\ UNCHANGED <<variant, poolParams, additionalAmount, longRecipient,
                 shortRecipient, now, addBalance, addError>>
  /\ UNCHANGED <<scriptVars, offerVars, relevantStateParams, balanceOf,
                 raceVars>>

\* lines 78-91: the allowance is raised to the amount when it is below it
AddApprove ==
  /\ addPc = "approve"
  /\ IF addAllowance < additionalAmount
       THEN /\ addSent' = Append(addSent, ApproveTx(LiquidityProvider,
                                                    additionalAmount))
            /\ allowanceOf' = Approve(LiquidityProvider, additionalAmount)
            /\ addAllowance' = allowanceOf'[LiquidityProvider]
       ELSE UNCHANGED <<addSent, allowanceOf, addAllowance>>
  /\ addPc' = "add"
  /\ UNCHANGED <<variant, poolParams, additionalAmount, longRecipient,
                 shortRecipient, now, addBalance, addError>>
  /\ UNCHANGED <<scriptVars, offerVars, relevantStateParams, balanceOf,
                 raceVars>>

\* the approve of the add-liquidity script is rejected: the run ends
AddApproveFails ==
  /\ addPc = "approve"
  /\ addAllowance < additionalAmount
  /\ addSent' = Append(addSent, ApproveTx(LiquidityProvider, additionalAmount))
  /\ addPc' = "failed"
  /\ addError' = "AllowanceRequestFailed"
  /\ UNCHANGED <<variant, poolParams, additionalAmount, longRecipient,
                 shortRecipient, now, addBalance, addAllowance>>
  /\ UNCHANGED <<scriptVars, offerVars, chainVars, raceVars>>

\* lines 93-100: addLiquidity is submitted and awaited
AddLiquidity ==
  /\ addPc = "add"
  /\ addSent' = Append(addSent, [kind |-> "addLiquidity",
                                 from |-> LiquidityProvider,
                                 amount |-> additionalAmount])
  /\ IF AddLiquidityAccepted
       THEN /\ poolParams' =
                 [poolParams EXCEPT
                    !.collateralBalance = @ + additionalAmount]
            /\ balanceOf' =
                 [balanceOf EXCEPT ![LiquidityProvider] = @ - additionalAmount]
            /\ allowanceOf' =
                 [allowanceOf EXCEPT
                    ![LiquidityProvider] = @ - additionalAmount]
            /\ addPc' = "done"
            /\ UNCHANGED addError
       ELSE /\ addPc' = "failed"
            /\ addError' = "SettlementRejected"
            /\ UNCHANGED <<poolParams, balanceOf, allowanceOf>>
  /\ UNCHANGED <<variant, additionalAmount, longRecipient, shortRecipient,
                 now, addBalance, addAllowance>>
  /\ UNCHANGED <<scriptVars, offerVars, relevantStateParams, raceVars>>

\* the allowance section of the add-liquidity main() entered a second time
AddRepeatAllowanceSection ==
  /\ addPc = "add"
  /\ pass = 1
  /\ pass' = 2
  /\ addPc' = "allowance"
  /\ UNCHANGED <<variant, poolParams, additionalAmount, longRecipient,
                 shortRecipient, now, addBalance, addAllowance, addError,
                 addSent>>
  /\ UNCHANGED <<scriptVars, offerVars, chainVars, interfered, firstFillDone,
                 rival>>

\* ------------------------------------------------------------------------
\* Initial states and specifications
\* ------------------------------------------------------------------------

\* main() before its first step, nothing read or sent yet
\* the second requester has not started
RivalIdle == [pc |-> "idle", amount |-> 0, error |-> ""]

ScriptAtStart ==
  /\ makerFillAmount = 0
  /\ totalCollateralFillAmount = 0
  /\ balanceMakerBefore = 0
  /\ balanceTakerBefore = 0
  /\ allowanceMaker = 0
  /\ allowanceTaker = 0
  /\ error = ""
  /\ sent = << >>
  /\ checked = FALSE
  /\ fillSucceeded = "none"
  /\ pass = 1
  /\ interfered = FALSE
  /\ rival = RivalIdle

\* the add-liquidity script is not run
AddIdle ==
  /\ addPc = "idle"
  /\ variant = "separate"
  /\ poolParams = [expiryTime |-> 0, collateralBalance |-> 0, capacity |-> 0]
  /\ additionalAmount = 0
  /\ longRecipient = AddressZero
  /\ shortRecipient = AddressZero
  /\ now = 0
  /\ addBalance = 0
  /\ addAllowance = 0
  /\ addError = ""
  /\ addSent = << >>

\* the statuses the settlement contract can report for an offer
StatusesOf(o, filled) ==
  IF o.takerCollateralAmount = 0 THEN {OfferStatus.Invalid}
  ELSE IF filled >= o.takerCollateralAmount
    THEN {OfferStatus.Cancelled, OfferStatus.Filled}
  ELSE {OfferStatus.Cancelled, OfferStatus.Expired, OfferStatus.Fillable}

\* a consistent report of the settlement contract
StateReport(o, filled, status, valid) ==
  [status |-> status,
   takerFilledAmount |-> filled,
   actualTakerFillableAmount |->
     IF status = OfferStatus.Fillable
       THEN o.takerCollateralAmount - filled ELSE 0,
   isValidInputParamsCreateContingentPool |-> valid]

\* a whole run of the fill script against the token and the settlement
\* contract
Init ==
  /\ pc = "compute"
  /\ offer \in [maker : Accounts,
                taker : Accounts \cup {AddressZero},
                makerCollateralAmount : 0..MaxAmount,
                takerCollateralAmount : 0..MaxAmount,
                minimumTakerFillAmount : 0..MaxAmount]
  /\ recoveredAddress \in Accounts
  /\ taker = "a1"
  /\ takerFillAmount \in 0..MaxAmount
  /\ \E filled \in 0..offer.takerCollateralAmount :
       \E status \in StatusesOf(offer, filled) :
         relevantStateParams = StateReport(offer, filled, status, TRUE)
  /\ balanceOf \in [Accounts -> 0..MaxBalance]
  /\ allowanceOf \in [Accounts -> 0..MaxBalance]
  /\ \A a \in Accounts \ {offer.maker, taker} :
        balanceOf[a] = 0 /\ allowanceOf[a] = 0
  /\ firstFillDone = (relevantStateParams.takerFilledAmount > 0)
  /\ ScriptAtStart
  /\ AddIdle

Next ==
  \/ CalculateMakerFillAmount
  \/ ReadBalances
  \/ ReadAllowances
  \/ ApproveSelf
  \/ ApproveMaker
  \/ ApproveTaker
  \/ ApproveFails
  \/ CheckConditions
  \/ FillOffer

Spec == Init /\ [][Next]_vars

\* the amount computations of main() over every offer ratio
InitCalc ==
  /\ pc = "compute"
  /\ offer \in [maker : Accounts,
                taker : {AddressZero},
                makerCollateralAmount : 0..MaxCalc,
                takerCollateralAmount : 0..MaxCalc,
                minimumTakerFillAmount : {0}]
  /\ recoveredAddress = offer.maker
  /\ taker = "a1"
  /\ takerFillAmount \in 0..MaxCalc
  /\ relevantStateParams =
       StateReport(offer, 0,
                   IF offer.takerCollateralAmount = 0
                     THEN OfferStatus.Invalid ELSE OfferStatus.Fillable,
                   TRUE)
  /\ balanceOf = [a \in Accounts |-> 0]
  /\ allowanceOf \in [Accounts -> 0..MaxBalance]
  /\ firstFillDone = FALSE
  /\ ScriptAtStart
  /\ AddIdle

NextCalc ==
  \/ CalculateMakerFillAmount
  \/ ReadBalances
  \/ ReadAllowances
  \/ ApproveSelf
  \/ ApproveMaker
  \/ ApproveTaker

SpecCalc == InitCalc /\ [][NextCalc]_vars

\* the amount computation and the allowance section on an offer whose maker
\* address the API service returns in either spelling
InitSpelling ==
  /\ pc = "compute"
  /\ offer \in [maker : Accounts \cup LowerCaseSpellings,
                taker : {AddressZero},
                makerCollateralAmount : 0..MaxCalc,
                takerCollateralAmount : 0..MaxCalc,
                minimumTakerFillAmount : {0}]
  /\ recoveredAddress = getSigner(offer.maker)
  /\ taker = "a1"
  /\ takerFillAmount \in 0..MaxCalc
  /\ relevantStateParams =
       StateReport(offer, 0,
                   IF offer.takerCollateralAmount = 0
                     THEN OfferStatus.Invalid ELSE OfferStatus.Fillable,
                   TRUE)
  /\ balanceOf = [a \in Accounts |-> 0]
  /\ allowanceOf \in [Accounts -> 0..MaxBalance]
  /\ firstFillDone = FALSE
  /\ ScriptAtStart
  /\ AddIdle

NextSpelling ==
  \/ CalculateMakerFillAmount
  \/ ReadBalances
  \/ ReadAllowances
  \/ ApproveSelf
  \/ ApproveMaker
  \/ ApproveTaker

SpecSpelling == InitSpelling /\ [][NextSpelling]_vars

\* _checkConditions over every combination of its arguments and of the
\* settlement contract's report
InitCheck ==
  /\ pc = "check"
  /\ offer \in [maker : Accounts,
                taker : Accounts \cup {AddressZero},
                makerCollateralAmount : {MaxParam},
                takerCollateralAmount : {MaxParam},
                minimumTakerFillAmount : 0..MaxParam]
  /\ recoveredAddress \in Accounts
  /\ taker \in Accounts
  /\ takerFillAmount \in 0..MaxParam
  /\ relevantStateParams \in
       [status : StatusValues,
        takerFilledAmount : 0..MaxParam,
        actualTakerFillableAmount : 0..MaxParam,
        isValidInputParamsCreateContingentPool : BOOLEAN]
  /\ balanceOf = [a \in Accounts |-> 0]
  /\ allowanceOf = [a \in Accounts |-> 0]
  /\ makerFillAmount \in 0..MaxParam
  /\ totalCollateralFillAmount = 0
  /\ balanceMakerBefore \in 0..MaxParam
  /\ balanceTakerBefore \in 0..MaxParam
  /\ allowanceMaker = 0
  /\ allowanceTaker = 0
  /\ error = ""
  /\ sent = << >>
  /\ checked = FALSE
  /\ fillSucceeded = "none"
  /\ pass = 1
  /\ interfered = FALSE
  /\ rival = RivalIdle
  /\ firstFillDone = (relevantStateParams.takerFilledAmount > 0)
  /\ AddIdle

NextCheck == CheckConditions

SpecCheck == InitCheck /\ [][NextCheck]_vars

\* the fill script is not run
FillIdle ==
  /\ pc = "idle"
  /\ offer = [maker |-> "a2", taker |-> AddressZero,
              makerCollateralAmount |-> 0, takerCollateralAmount |-> 0,
              minimumTakerFillAmount |-> 0]
  /\ recoveredAddress = "a2"
  /\ taker = "a1"
  /\ takerFillAmount = 0
  /\ relevantStateParams = StateReport(offer, 0, OfferStatus.Invalid, TRUE)
  /\ firstFillDone = FALSE
  /\ ScriptAtStart

\* a run of the fill script on an open, validly signed, fillable offer while a
\* second requester runs the script on the same offer and the maker may
\* cancel it; each account has granted either no allowance or a full one
InitRace ==
  /\ pc = "compute"
  /\ offer \in [maker : Accounts,
                taker : {AddressZero},
                makerCollateralAmount : 0..MaxAmount,
                takerCollateralAmount : 1..MaxAmount,
                minimumTakerFillAmount : 0..MaxAmount]
  /\ recoveredAddress = offer.maker
  /\ taker = "a1"
  /\ takerFillAmount \in 0..MaxAmount
  /\ \E filled \in 0..(offer.takerCollateralAmount - 1) :
       relevantStateParams =
         StateReport(offer, filled, OfferStatus.Fillable, TRUE)
  /\ balanceOf \in [Accounts -> 0..MaxBalance]
  /\ allowanceOf \in [Accounts -> {0, MaxBalance}]
  /\ firstFillDone = (relevantStateParams.takerFilledAmount > 0)
  /\ ScriptAtStart
  /\ AddIdle

NextRace ==
  \/ CalculateMakerFillAmount
  \/ ReadBalances
  \/ ReadAllowances
  \/ ApproveSelf
  \/ ApproveMaker
  \/ ApproveTaker
  \/ ApproveFails
  \/ CheckConditions
  \/ FillOffer
  \/ RivalCheckConditions
  \/ RivalFillOffer
  \/ OtherPartyCancels

SpecRace == InitRace /\ [][NextRace]_vars

\* a whole run of one of the add-liquidity scripts
InitAdd ==
  /\ FillIdle
  /\ addPc = "balance"
  /\ variant \in {"separate", "combined"}
  /\ poolParams \in [expiryTime : 0..MaxTime,
                     collateralBalance : 0..MaxAmount,
                     capacity : 0..MaxAmount]
  /\ additionalAmount \in 0..MaxAmount
  /\ longRecipient \in {AddressZero, "a1", "a2"}
  /\ shortRecipient \in {AddressZero, "a1", "a2"}
  /\ now \in 0..MaxTime
  /\ balanceOf \in [Accounts -> 0..MaxBalance]
  /\ allowanceOf \in [Accounts -> 0..MaxBalance]
  /\ \A a \in Accounts \ {LiquidityProvider} :
        balanceOf[a] = 0 /\ allowanceOf[a] = 0
  /\ addBalance = 0
  /\ addAllowance = 0
  /\ addError = ""
  /\ addSent = << >>

NextAdd ==
  \/ AddReadBalance
  \/ AddCheckConditions
  \/ AddReadAllowance
  \/ AddApprove
  \/ AddApproveFails
  \/ AddLiquidity

SpecAdd == InitAdd /\ [][NextAdd]_vars

\* the allowance sections of the scripts, each entered up to twice: a run
\* of the fill script up to its preflight, or a run of an add-liquidity
\* script up to its submission
InitAllowance == InitCalc \/ InitAdd

NextAllowance ==
  \/ CalculateMakerFillAmount
  \/ ReadBalances
  \/ ReadAllowances
  \/ ApproveSelf
  \/ ApproveMaker
  \/ ApproveTaker
  \/ RepeatAllowanceSection
  \/ AddReadBalance
  \/ AddCheckConditions
  \/ AddReadAllowance
  \/ AddApprove
  \/ AddRepeatAllowanceSection

SpecAllowance == InitAllowance /\ [][NextAllowance]_vars

\* ------------------------------------------------------------------------
\* Properties
\* ------------------------------------------------------------------------

\* check k of the preflight is violated by the arguments of the call
Violates(k) ==
  CASE k = 1 -> relevantStateParams.status \in
                  {OfferStatus.Invalid, OfferStatus.Cancelled,
                   OfferStatus.Filled, OfferStatus.Expired}
    [] k = 2 -> ~relevantStateParams.isValidInputParamsCreateContingentPool
    [] k = 3 -> takerFillAmount > relevantStateParams.actualTakerFillableAmount
    [] k = 4 -> recoveredAddress # offer.maker
    [] k = 5 -> offer.taker # AddressZero /\ taker # offer.taker
    [] k = 6 -> /\ relevantStateParams.takerFilledAmount = 0
                /\ takerFillAmount < offer.minimumTakerFillAmount
    [] k = 7 -> balanceTakerBefore < takerFillAmount
    [] k = 8 -> balanceMakerBefore < makerFillAmount

ReasonsOfCheck(k) ==
  CASE k = 1 -> {"StatusInvalid", "StatusCancelled", "StatusFilled",
                 "StatusExpired"}
    [] k = 2 -> {"InvalidParameters"}
    [] k = 3 -> {"ExceedsFillable"}
    [] k = 4 -> {"InvalidSignature"}
    [] k = 5 -> {"Unauthorized"}
    [] k = 6 -> {"BelowMinimum"}
    [] k = 7 -> {"InsufficientTakerBalance"}
    [] k = 8 -> {"InsufficientMakerBalance"}

\* every check before check k passes
PriorPass(k) == \A j \in 1..(k - 1) : ~Violates(j)

PreflightReturned == pc \in {"fill", "failed"}

\* C1: the preflight reports the reason of the earliest violated check in the
\* order status, parameters, fillable, signature, taker, minimum, taker
\* balance, maker balance, and passes only when no check is violated.
C1_EarliestViolatedCheckReported ==
  PreflightReturned =>
    IF \E k \in 1..8 : Violates(k)
      THEN /\ pc = "failed"
           /\ \E k \in 1..8 :
                /\ Violates(k)
                /\ PriorPass(k)
                /\ error \in ReasonsOfCheck(k)
      ELSE pc = "fill" /\ error = ""

C1_Witness ==
  /\ pc = "failed"
  /\ PriorPass(3)
  /\ Violates(3) /\ Violates(4) /\ Violates(6) /\ Violates(7) /\ Violates(8)
  /\ error = "ExceedsFillable"

\* C2: nothing is sent, neither an approve nor a fill, before the preflight
\* has passed.
C2_NothingSentBeforePreflightPassed == sent # << >> => checked

\* C3: the computed maker fill amount is floor(makerAmount * takerFillAmount
\* / takerAmount): the product is formed first and the quotient truncated.
C3_MakerFillAmountIsFloorOfProduct ==
  (pc \notin {"compute", "failed"}) =>
    /\ offer.takerCollateralAmount > 0
    /\ makerFillAmount * offer.takerCollateralAmount
         <= offer.makerCollateralAmount * takerFillAmount
    /\ offer.makerCollateralAmount * takerFillAmount
         < (makerFillAmount + 1) * offer.takerCollateralAmount

C3_Witness ==
  /\ pc = "balances"
  /\ makerFillAmount = 2
  /\ (offer.makerCollateralAmount * takerFillAmount)
       % offer.takerCollateralAmount # 0
  /\ takerFillAmount < offer.takerCollateralAmount

\* C4: BelowMinimum is reported exactly when nothing has been filled yet and
\* the requested amount is below the minimum; once something has been filled
\* a request below the minimum is not rejected for it.
C4_BelowMinimumOnlyOnFirstFill ==
  /\ BelowMinimum(0, 5, 10)
  /\ ~BelowMinimum(20, 5, 10)
  /\ PreflightReturned =>
       /\ error = "BelowMinimum" <=>
            /\ PriorPass(6)
            /\ relevantStateParams.takerFilledAmount = 0
            /\ takerFillAmount < offer.minimumTakerFillAmount
       /\ (PriorPass(6) /\ relevantStateParams.takerFilledAmount > 0
             /\ ~Violates(7) /\ ~Violates(8)) => pc = "fill"

C4_Witness ==
  /\ pc = "fill"
  /\ relevantStateParams.takerFilledAmount > 0
  /\ takerFillAmount < offer.minimumTakerFillAmount

\* C5: ExceedsFillable is reported exactly when the requested amount is
\* strictly greater than the fillable amount the settlement contract
\* reports; an equal amount is accepted.
C5_ExceedsFillableUsesReportedAmount ==
  PreflightReturned =>
    (error = "ExceedsFillable" <=>
       /\ PriorPass(3)
       /\ takerFillAmount > relevantStateParams.actualTakerFillableAmount)

C5_Witness ==
  /\ PreflightReturned
  /\ PriorPass(3)
  /\ takerFillAmount = relevantStateParams.actualTakerFillableAmount
  /\ takerFillAmount >
       offer.takerCollateralAmount - relevantStateParams.takerFilledAmount
  /\ error # "ExceedsFillable"

\* C6: a status of Invalid, Cancelled, Filled or Expired is reported as such
\* whatever the other arguments are, and the preflight passes only from
\* Fillable.
C6_StatusReportedFirst ==
  PreflightReturned =>
    /\ relevantStateParams.status = OfferStatus.Invalid
         => error = "StatusInvalid"
    /\ relevantStateParams.status = OfferStatus.Cancelled
         => error = "StatusCancelled"
    /\ relevantStateParams.status = OfferStatus.Filled
         => error = "StatusFilled"
    /\ relevantStateParams.status = OfferStatus.Expired
         => error = "StatusExpired"
    /\ pc = "fill" => relevantStateParams.status = OfferStatus.Fillable

C6_Witness ==
  /\ PreflightReturned
  /\ relevantStateParams.status = OfferStatus.Expired
  /\ Violates(7)
  /\ error = "StatusExpired"

\* C7: for a fillable offer with valid parameters and a request within the
\* fillable amount, InvalidSignature is reported whenever the recovered
\* address is not the maker, before the taker, minimum and balance reasons,
\* and is not reported when the recovered address is the maker.
C7_InvalidSignatureBeforeLaterChecks ==
  (PreflightReturned /\ PriorPass(4)) =>
    (error = "InvalidSignature" <=> recoveredAddress # offer.maker)

C7_Witness ==
  /\ PreflightReturned
  /\ PriorPass(4)
  /\ recoveredAddress # offer.maker
  /\ Violates(5) /\ Violates(6) /\ Violates(7) /\ Violates(8)
  /\ error = "InvalidSignature"

\* C8: Unauthorized is reported exactly when the offer names a taker other
\* than the zero address and the requester is not that taker; with the zero
\* address as taker every requester passes the check.
C8_UnauthorizedOnlyForReservedOffer ==
  PreflightReturned =>
    /\ error = "Unauthorized" <=>
         /\ PriorPass(5)
         /\ offer.taker # AddressZero
         /\ taker # offer.taker
    /\ (offer.taker = AddressZero /\ PriorPass(5) /\ ~Violates(6)
          /\ ~Violates(7) /\ ~Violates(8)) => pc = "fill"

C8_Witness ==
  /\ pc = "fill"
  /\ offer.taker = AddressZero
  /\ taker # offer.maker

\* C9: once the preflight has passed and the allowances are assured, the
\* fill submitted to the settlement contract succeeds, also when the taker
\* is the maker.
C9_PassedPreflightFillSucceeds ==
  (checked /\ pc \in {"done", "failed"}) => fillSucceeded = "yes"

\* the same for two different accounts only
C9_TwoAccountsFillSucceeds ==
  (checked /\ pc \in {"done", "failed"} /\ taker # offer.maker)
    => fillSucceeded = "yes"

\* C10: the combined amount of a self-fill is the sum of the maker leg and
\* the taker leg computed on their own.
C10_CombinedAmountIsSumOfLegs ==
  (pc = "check" /\ taker = offer.maker) =>
    totalCollateralFillAmount = makerFillAmount + takerFillAmount

C10_Witness ==
  /\ pc = "check"
  /\ taker = offer.maker
  /\ (offer.makerCollateralAmount * takerFillAmount)
       % offer.takerCollateralAmount # 0
  /\ takerFillAmount > offer.takerCollateralAmount
  /\ totalCollateralFillAmount = makerFillAmount + takerFillAmount

\* the approve transactions the fill script has sent for account a
ApprovesOf(a) ==
  {i \in DOMAIN sent : sent[i].kind = "approve" /\ sent[i].from = a}

FillsSent == {i \in DOMAIN sent : sent[i].kind = "fill"}

\* (makerAmount + takerAmount) * requestedTakerAmount / takerAmount
CombinedAmount ==
  ((offer.makerCollateralAmount + offer.takerCollateralAmount)
     * takerFillAmount) \div offer.takerCollateralAmount

C14_MakerFillAmountMonotonic ==
  (pc \notin {"compute", "failed"} /\ offer.makerCollateralAmount > 0) =>
    \A a \in 0..takerFillAmount :
      ComputeMakerFillAmount(offer, a) <= makerFillAmount

C14_Witness ==
  /\ pc = "balances"
  /\ offer.makerCollateralAmount > 0
  /\ takerFillAmount >= 2
  /\ ComputeMakerFillAmount(offer, takerFillAmount - 1) < makerFillAmount
  /\ ComputeMakerFillAmount(offer, takerFillAmount - 2)
       = ComputeMakerFillAmount(offer, takerFillAmount - 1)

ScenarioOffer ==
  [maker |-> "a2", taker |-> AddressZero, makerCollateralAmount |-> 100,
   takerCollateralAmount |-> 50, minimumTakerFillAmount |-> 10]

\* C15: for a request of at most takerAmount the computed maker amount is
\* the whole makerAmount exactly when the request is the whole takerAmount
\* (100/50 filled with 50 gives 100).
C15_FullFillGivesMakerAmount ==
  /\ ComputeMakerFillAmount(ScenarioOffer, 50) = 100
  /\ (/\ pc \notin {"compute", "failed"}
      /\ offer.makerCollateralAmount > 0
      /\ takerFillAmount <= offer.takerCollateralAmount) =>
       (makerFillAmount = offer.makerCollateralAmount
          <=> takerFillAmount = offer.takerCollateralAmount)

C15_Witness ==
  /\ pc = "balances"
  /\ takerFillAmount = offer.takerCollateralAmount
  /\ makerFillAmount = offer.makerCollateralAmount
  /\ offer.makerCollateralAmount % offer.takerCollateralAmount # 0

\* C17: computing the maker amount fails with Overflow when the product
\* makerAmount * takerFillAmount exceeds the largest representable integer.
C17_OverflowRejected ==
  (pc # "compute" /\ offer.takerCollateralAmount > 0
     /\ offer.makerCollateralAmount * takerFillAmount > MaxUint)
    => error = "Overflow"

\* the allowance the step about to run finds is already sufficient
AllowanceStepSufficient ==
  CASE pc = "approve" /\ taker = offer.maker ->
         allowanceOf[offer.maker] >= CombinedAmount
    [] pc = "approve" /\ taker # offer.maker ->
         allowanceOf[offer.maker] >= makerFillAmount
    [] pc = "approveTaker" -> allowanceOf[taker] >= takerFillAmount
    [] addPc = "approve" -> allowanceOf[LiquidityProvider] >= additionalAmount
    [] OTHER -> FALSE

\* C12: an allowance step that finds the allowance sufficient changes
\* nothing and sends nothing, and when the allowance section is entered a
\* second time with nothing changed in between no approve is sent again.
C12_AllowanceStepIdempotent ==
  [][/\ AllowanceStepSufficient => UNCHANGED <<sent, addSent, chainVars>>
     /\ pass = 2 => UNCHANGED <<sent, addSent, allowanceOf>>]_vars

C12_Witness ==
  /\ pass = 2
  /\ pc = "check"
  /\ taker # offer.maker
  /\ ApprovesOf(offer.maker) # {}
  /\ ApprovesOf(taker) # {}

\* the amount the fill script needs account a to have approved
RequiredFor(a) ==
  IF taker = offer.maker THEN CombinedAmount
  ELSE IF a = offer.maker THEN makerFillAmount
  ELSE takerFillAmount

AddApproves == {i \in DOMAIN addSent : addSent[i].kind = "approve"}

\* every approve of the fill script asks for the required amount plus one
FillScriptTopUpsBuffered ==
  \A i \in DOMAIN sent :
    sent[i].kind = "approve" => sent[i].amount = RequiredFor(sent[i].from) + 1

\* after a top-up the script holds the allowance as re-read from the token
TopUpsAwaitedAndReread ==
  /\ (pc \in {"approveTaker", "check"} /\ ApprovesOf(offer.maker) # {}) =>
       /\ allowanceMaker = allowanceOf[offer.maker]
       /\ allowanceMaker = RequiredFor(offer.maker) + 1
  /\ (pc = "check" /\ taker # offer.maker /\ ApprovesOf(taker) # {}) =>
       /\ allowanceTaker = allowanceOf[taker]
       /\ allowanceTaker = takerFillAmount + 1
  /\ (addPc = "add" /\ AddApproves # {}) =>
       addAllowance = allowanceOf[LiquidityProvider]
  /\ pc = "check" =>
       \A a \in {offer.maker, taker} : allowanceOf[a] >= RequiredFor(a)
  /\ addPc = "add" => allowanceOf[LiquidityProvider] >= additionalAmount

\* C13 as stated: every top-up, in the fill script and in the add-liquidity
\* scripts, is sized to the required amount plus one, awaited and re-read.
C13_EveryTopUpSizedRequiredPlusOne ==
  /\ FillScriptTopUpsBuffered
  /\ \A i \in AddApproves : addSent[i].amount = additionalAmount + 1
  /\ TopUpsAwaitedAndReread

\* C13 as amended: the fill script sizes a top-up to the required amount
\* plus one, the add-liquidity scripts size it to exactly the required
\* amount; each top-up is awaited and the allowance re-read after it.
C13_TopUpSizedPerScript ==
  /\ FillScriptTopUpsBuffered
  /\ \A i \in AddApproves : addSent[i].amount = additionalAmount
  /\ (addPc = "add" /\ AddApproves # {}) => addAllowance = additionalAmount
  /\ TopUpsAwaitedAndReread

C13_Witness ==
  /\ addPc = "add"
  /\ AddApproves # {}
  /\ additionalAmount > 0
  /\ addAllowance = additionalAmount

\* the run of the fill script is over
RunEnded == pc \in {"done", "failed"}

\* C16: a failed allowance top-up or a rejected fill ends the run and is
\* never retried: each party's approve is issued at most once, the fill is
\* submitted at most once, after a failed approve no fill is submitted, and
\* nothing is sent after the run has ended.
C16_FailureEndsRunWithoutRetry ==
  /\ \A a \in Accounts : Cardinality(ApprovesOf(a)) <= 1
  /\ Cardinality(FillsSent) <= 1
  /\ error = "AllowanceRequestFailed" => (pc = "failed" /\ FillsSent = {})
  /\ fillSucceeded = "no" => (pc = "failed" /\ error = "SettlementRejected")
  /\ RunEnded => ~ ENABLED Next

\* the maker's approve went through, the taker's failed, and the run ended
\* with both approves sent once and no fill
C16_Witness ==
  /\ pc = "failed"
  /\ error = "AllowanceRequestFailed"
  /\ Len(sent) = 2
  /\ FillsSent = {}

\* C19: the preflight is read-only: a step of it, passing or failing, leaves
\* the offer, its reported status and cumulative filled amount, every balance
\* and every allowance unchanged; the reported offer state changes only in
\* the step that submits a fill.
C19_PreflightReadOnly ==
  [][/\ pc = "check" => UNCHANGED <<offerVars, chainVars>>
     /\ relevantStateParams' # relevantStateParams =>
          (pc = "fill" /\ fillSucceeded' = "yes")]_vars

\* the preflight has passed on a positive fill amount of an offer with a
\* positive maker leg
C19_Witness ==
  /\ pc = "fill"
  /\ checked
  /\ takerFillAmount > 0
  /\ makerFillAmount > 0

\* the fill the script is about to submit no longer fits the offer
FillStale ==
  \/ relevantStateParams.status # OfferStatus.Fillable
  \/ relevantStateParams.actualTakerFillableAmount < takerFillAmount

\* the fill the second requester is about to submit no longer fits the offer
RivalFillStale ==
  \/ relevantStateParams.status # OfferStatus.Fillable
  \/ relevantStateParams.actualTakerFillableAmount < rival.amount

\* C18: when another party fills or cancels the offer between a requester's
\* passed preflight and its fill, the settlement contract rejects the stale
\* fill and changes nothing, so in every interleaving of two requesters the
\* cumulative taker filled amount never exceeds the offer's taker amount;
\* the script holds no lock: it sends nothing in the preflight, and while it
\* waits to submit the maker can still cancel a fillable offer.
C18_StalePreflightNeverOverfills ==
  /\ [](relevantStateParams.takerFilledAmount <= offer.takerCollateralAmount)
  /\ []((pc = "fill" /\ relevantStateParams.status = OfferStatus.Fillable)
          => ENABLED OtherPartyCancels)
  /\ [][/\ (pc = "fill" /\ pc' # "fill" /\ FillStale)
            => (fillSucceeded' = "no" /\ UNCHANGED chainVars)
        /\ (rival.pc = "fill" /\ rival'.pc # "fill" /\ RivalFillStale)
            => (rival'.pc = "failed" /\ UNCHANGED chainVars)
        /\ pc = "check" => sent' = sent]_vars

\* the script's preflight passed, the second requester's fill was accepted
\* in the window, and the script's fill, larger than what was left, was
\* rejected
C18_Witness ==
  /\ checked
  /\ interfered
  /\ rival.pc = "done"
  /\ rival.amount > 0
  /\ pc = "failed"
  /\ error = "SettlementRejected"
  /\ takerFillAmount > relevantStateParams.actualTakerFillableAmount
  /\ taker # offer.maker

\* the BelowMinimum decision taken from the one-way latch
BelowMinimumByLatch(tfa, minimum) == ~ firstFillDone /\ tfa < minimum

\* C20: the one-way latch "a fill of a positive amount has been accepted"
\* and the code's recomputed test takerFilledAmount = 0 give the same
\* BelowMinimum decision in every reachable state, for every fill amount;
\* once the latch is set no later preflight, of either requester, reports
\* BelowMinimum.
C20_LatchAgreesWithRecomputedTest ==
  /\ [](\A tfa \in 0..MaxAmount :
          BelowMinimum(relevantStateParams.takerFilledAmount, tfa,
                       offer.minimumTakerFillAmount)
            <=> BelowMinimumByLatch(tfa, offer.minimumTakerFillAmount))
  /\ [][/\ (pc = "check" /\ firstFillDone) => error' # "BelowMinimum"
        /\ (rival.pc = "idle" /\ firstFillDone)
            => rival'.error # "BelowMinimum"]_vars

\* the second requester's fill was the first fill of the offer and set the
\* latch; the script's later preflight passed an amount below the minimum
C20_Witness ==
  /\ firstFillDone
  /\ rival.pc = "done"
  /\ rival.amount > 0
  /\ relevantStateParams.takerFilledAmount = rival.amount
  /\ pc = "fill"
  /\ checked
  /\ takerFillAmount < offer.minimumTakerFillAmount

\* C21: when the allowance section of the fill script has completed without
\* error, each funding account's allowance covers what it pays in the fill:
\* the maker's at least the maker amount, the taker's at least the taker
\* fill amount, and the single allowance of an account that is both at least
\* the combined amount.
C21_AllowanceCoversFill ==
  pc = "check" =>
    IF maker = taker
      THEN allowanceOf[maker] >= CombinedAmount
      ELSE /\ allowanceOf[maker] >= makerFillAmount
           /\ allowanceOf[taker] >= takerFillAmount

\* the k-th requirement of the add-liquidity preflight is not met
AddViolates(k) ==
  CASE k = 1 -> longRecipient = AddressZero \/ shortRecipient = AddressZero
    [] k = 2 -> ~ (now < poolParams.expiryTime)
    [] k = 3 -> ~ (poolParams.collateralBalance + additionalAmount
                     <= poolParams.capacity)
    [] k = 4 -> ~ (addBalance >= additionalAmount)

\* the errors that report the k-th requirement
AddReasonsOfCheck(k) ==
  CASE k = 1 -> {"LongRecipientZero", "ShortRecipientZero", "RecipientZero"}
    [] k = 2 -> {"PoolExpired"}
    [] k = 3 -> {"CapacityExceeded"}
    [] k = 4 -> {"InsufficientBalance"}

\* the add-liquidity preflight has returned or thrown
AddPreflightReturned ==
  addPc \in {"allowance", "approve", "add", "done", "failed"}

\* the pool is still as the script read it: no liquidity has been added
PoolAsRead == addPc # "done"

\* the add-liquidity preflight has returned normally
AddPreflightPassed ==
  /\ AddPreflightReturned
  /\ \A k \in 1..4 : addError \notin AddReasonsOfCheck(k)

\* C22: the add-liquidity preflight passes exactly when both recipients are
\* non-zero, the time is strictly before the expiry time, collateral balance
\* plus additional amount is at most the capacity and the provider's balance
\* is at least the additional amount; it reports the first requirement not
\* met, in that order; approve and addLiquidity are sent only after it
\* passed.
C22_AddPreflightPassesExactlyWhenAllMet ==
  /\ (AddPreflightReturned /\ PoolAsRead) =>
       /\ AddPreflightPassed <=> \A k \in 1..4 : ~ AddViolates(k)
       /\ \A k \in 1..4 :
            addError \in AddReasonsOfCheck(k)
              <=> (AddViolates(k) /\ \A j \in 1..(k - 1) : ~ AddViolates(j))
  /\ addSent # << >> => AddPreflightPassed

\* the preflight with the separate tests has passed an addition that fills
\* the pool exactly to its capacity and uses the provider's whole balance,
\* and the approve has been sent
C22_Witness ==
  /\ addPc = "add"
  /\ variant = "separate"
  /\ additionalAmount > 0
  /\ poolParams.collateralBalance + additionalAmount = poolParams.capacity
  /\ addBalance = additionalAmount
  /\ Len(addSent) = 1

\* the class of the first failing check of an add-liquidity preflight
AddClass(r) ==
  IF r \in {"LongRecipientZero", "ShortRecipientZero", "RecipientZero"}
    THEN "ZeroAddressRecipient"
    ELSE r

\* what each preflight variant returns on the inputs of the run
SeparateResult ==
  addCheckSeparate(poolParams, additionalAmount, longRecipient,
                   shortRecipient, addBalance, now)

CombinedResult ==
  addCheckCombined(poolParams, additionalAmount, longRecipient,
                   shortRecipient, addBalance, now)

\* C23: the two add-liquidity preflight variants accept and reject exactly
\* the same inputs, and on every rejected input their first failing checks
\* fall in the same class; what the variant that ran reported is what the
\* other one would have reported on the inputs it was given.
C23_PreflightVariantsAgree ==
  /\ SeparateResult = "Ok" <=> CombinedResult = "Ok"
  /\ AddClass(SeparateResult) = AddClass(CombinedResult)
  /\ (addPc = "failed" /\ addSent = << >>) =>
       /\ AddClass(addError) = AddClass(SeparateResult)
       /\ AddClass(addError) = AddClass(CombinedResult)
  /\ (addPc \in {"allowance", "approve", "add"}) =>
       (SeparateResult = "Ok" /\ CombinedResult = "Ok")

\* the combined variant rejected an input whose short recipient alone is the
\* zero address, which the separate variant rejects in its second test
C23_Witness ==
  /\ addPc = "failed"
  /\ variant = "combined"
  /\ addError = "RecipientZero"
  /\ longRecipient # AddressZero
  /\ shortRecipient = AddressZero
  /\ SeparateResult = "ShortRecipientZero"

====
